---------------------------- MODULE Spec2Model ----------------------------
(***************************************************************************)
(* The transcription job pipeline of WhisperNotebook:                      *)
(*   backend/app/api/texts.py            upload_file, transcribe_youtube   *)
(*   backend/app/services/transcription_service.py                         *)
(*        process_transcription, process_youtube, process_next_in_queue    *)
(* The record store is the `texts` table; every query and every commit is  *)
(* one atomic step, and the steps of different invocations interleave      *)
(* freely (background tasks run in the thread pool, the scheduler starts   *)
(* plain threads).                                                         *)
(*                                                                         *)
(* Spec       the runs of MaxJobs paid jobs, interleaved step by step,     *)
(*            with the errors of the steps and of the commits              *)
(* SpecSeq    the runs one after the other, with every backend and result  *)
(* SpecQueue  MaxRows uploads, the client's PUT of its timestamps, and the *)
(*            scheduler's choice among the queued jobs                     *)
(* SpecModel  the calls of get_local_model by concurrent threads           *)
(* SpecAudio  the calls of extract_audio on the files of the disk          *)
(* SpecNames  the titles and file names given to sanitize_filename         *)
(* SpecDelete the runs of MaxJobs uploads for the local backend, with      *)
(*            delete_text of their rows at any moment                      *)
(* SpecUploads  the files and rows that upload_file and delete_text        *)
(*            create and remove                                            *)
(* SpecBackend  one submission, the arguments its run gets from the        *)
(*            background task or from the scheduler, and the backend call  *)
(***************************************************************************)
EXTENDS Integers, FiniteSets, Sequences, TLC

\* ------------------------------------------------------------------ bounds
\* number of job records that are ever submitted while runs interleave
MaxJobs == 2
\* number of rows of the texts table
MaxRows == 3
\* number of threads that call get_local_model
MaxCallers == 3
\* number of run() invocations that execute at the same time
MaxWorkers == 2
\* number of scheduler-started threads per job that have not yet run a line
MaxPending == 1
\* number of segments the local model yields for one audio
MaxSegments == 2
\* number of characters of a title or file name
MaxName == 3
\* number of uploads
MaxUploads == 3
\* number of ticks of the clock
MaxTicks == 4

\* ------------------------------------------------------- program constants
\* transcribe_local returns cost 0.0
LocalCost == 0
\* transcribe_api: a positive cost (the minimal one is 0.006)
ApiCost == 1

Ids == 1..MaxRows
Workers == 1..MaxWorkers
Callers == 1..MaxCallers
Methods == {"local", "api"}
Vias == {"task", "thread"}

\* Text.status values the pipeline writes ("unread" is the spec's `ready`)
Terminal == {"unread", "failed"}

\* extract_audio has not been called
NoCall == [pc |-> "out", path |-> 0, found |-> "none", ran |-> <<>>,
           result |-> "none"]

\* nothing has been submitted; None is "none"
NoSubmission ==
  [pc |-> "none", form |-> "none", row |-> "none", args |-> "none",
   via |-> "none"]

\* the run has stored nothing
NoResult == [content |-> <<>>, language |-> "none", heard |-> "none",
             demo |-> FALSE]

\* no title has been received
NoTitle == [pc |-> "typing", title |-> <<>>, safe |-> <<>>]

\* a row of the texts table that does not exist (yet)
NoText ==
  [status |-> "absent", queued_at |-> 0, started_at |-> "none",
   source_type |-> "none",
   method |-> "none", content |-> "", duration |-> "none", cost |-> 0,
   error_message |-> "none", filename |-> "none"]

VARIABLES
  texts,     \* the texts table: id -> row
  pending,   \* invocations of run() scheduled or started, not yet at their first line
  pc,        \* per worker: the place its invocation has reached
  tid,       \* per worker: the text_id argument
  via,       \* per worker: started by a submission's background task or by the scheduler
  frame,     \* per worker: "pt", "yt", or "yt_pt" (process_transcription called by process_youtube)
  seen,      \* per worker: text.status as loaded by the query at the entry of run()
  marked,    \* per worker: the current invocation has executed text.status = "processing"
  admitted,  \* per worker: the current invocation has called process_next_in_queue
  behind,    \* history: per job, the jobs submitted while it was processing
  temp,      \* per job: the file temp/<id>_audio.wav exists
  costs,     \* per job: the number of rows of the costs table written for it
  local_model,  \* TranscriptionService._local_model: 0 is None, n the n-th instance
  constructed,  \* the number of WhisperModel(...) constructions
  at,        \* per caller of get_local_model: the place it has reached
  got,       \* per caller: the instance its last call returned, 0 before any
  disk,      \* per input path: what os.path.exists and os.path.getsize find there
  ea,        \* the call of extract_audio: its place, its input, the commands run
  opt,       \* one submission: the form, the stored row, the arguments of its run
  segments,  \* the segments the local model yields for its audio
  outcome,   \* what the run stores on the row: content and language
  yt,        \* a video title and the name sanitize_filename makes of it
  clock,     \* the clock of the server, in ticks
  uploads,   \* the names of the files in the directory uploads/
  rows,      \* the rows of the uploads, in the order of their creation
  gone       \* the ids of the rows of the texts table that delete_text has deleted

\* the state of the pipeline and the state of the model cache
pipeline == <<texts, pending, pc, tid, via, frame, seen, marked, admitted,
              behind, temp, costs>>
cache == <<local_model, constructed, at, got>>
\* the state of the audio normalizer
tools == <<disk, ea>>
\* the state of one submission and its backend call
backend == <<opt, segments, outcome>>
\* the uploads and their files, and the deleted rows
files == <<clock, uploads, rows, gone>>
\* what the steps of the pipeline leave alone
beside == <<cache, tools, backend, yt, files>>

vars == <<texts, pending, pc, tid, via, frame, seen, marked, admitted, behind,
          temp, costs, local_model, constructed, at, got, disk, ea,
          opt, segments, outcome, yt, clock, uploads, rows, gone>>

Exists(j) == texts[j].status # "absent"
Jobs == {j \in Ids : Exists(j)}
Processing == {j \in Ids : texts[j].status = "processing"}
Queued == {j \in Ids : texts[j].status = "queued"}

Init ==
  /\ texts = [j \in Ids |-> NoText]
  /\ pending = [j \in Ids |-> [v \in Vias |-> 0]]
  /\ pc = [w \in Workers |-> "idle"]
  /\ tid = [w \in Workers |-> 0]
  /\ via = [w \in Workers |-> "task"]
  /\ frame = [w \in Workers |-> "pt"]
  /\ seen = [w \in Workers |-> "none"]
  /\ marked = [w \in Workers |-> FALSE]
  /\ admitted = [w \in Workers |-> FALSE]
  /\ behind = [j \in Ids |-> {}]
  /\ temp = [j \in Ids |-> FALSE]
  /\ costs = [j \in Ids |-> 0]
  /\ local_model = 0
  /\ constructed = 0
  /\ at = [c \in Callers |-> "out"]
  /\ got = [c \in Callers |-> 0]
  /\ disk = [j \in Ids |-> "missing"]
  /\ ea = NoCall
  /\ opt = NoSubmission
  /\ segments = <<>>
  /\ outcome = NoResult
  /\ yt = NoTitle
  /\ clock = 0
  /\ uploads = {}
  /\ rows = <<>>
  /\ gone = {}

\* history kept for the properties: the jobs created while a job was
\* processing, since it last became processing
Behind ==
  behind' = [a \in Ids |->
    LET created == {b \in Ids : ~Exists(b) /\ texts'[b].status # "absent"}
    IN  IF texts'[a].status = "processing"
        THEN IF texts[a].status = "processing" THEN behind[a] \cup created ELSE {}
        ELSE behind[a]]

\* ------------------------------------------------------------- submission
\* the id the table gives the next row
NextId == CHOOSE j \in Ids : ~Exists(j) /\ \A k \in Ids : k < j => Exists(k)

\* the queued_at a client stores with PUT /texts/{id}: an integer, which
\* the ORDER BY puts before every value that datetime.utcnow() has stored
ClientQueuedAt == 1

\* the largest queued_at stored so far
LastQueuedAt ==
  LET stored == {ClientQueuedAt} \cup {texts[j].queued_at : j \in Jobs}
  IN  CHOOSE q \in stored : \A r \in stored : r <= q

\* datetime.utcnow() at the creation of a row: the handlers create their rows
\* one after the other on the event loop, so a later row gets a later value
NowValues == {LastQueuedAt + 1}

\* background_tasks.add_task(run, text.id, ...)
AddTask(j) == [pending EXCEPT ![j]["task"] = @ + 1]

\* POST /upload: the row is created `queued`, its run is a background task
UploadFile(method, now) ==
  /\ \E j \in Ids : ~Exists(j)
  /\ texts' = [texts EXCEPT ![NextId] =
       [status |-> "queued", queued_at |-> now, started_at |-> "none",
        source_type |-> "upload",
        method |-> method, content |-> "", duration |-> "none", cost |-> 0,
        error_message |-> "none", filename |-> "upload"]]
  /\ pending' = AddTask(NextId)
  /\ UNCHANGED <<pc, tid, via, frame, seen, marked, admitted>>
  /\ UNCHANGED <<temp, costs>>
  /\ Behind
  /\ UNCHANGED beside

\* POST /youtube: the same, with no file yet
TranscribeYoutube(method, now) ==
  /\ \E j \in Ids : ~Exists(j)
  /\ texts' = [texts EXCEPT ![NextId] =
       [status |-> "queued", queued_at |-> now, started_at |-> "none",
        source_type |-> "youtube",
        method |-> method, content |-> "", duration |-> "none", cost |-> 0,
        error_message |-> "none", filename |-> "none"]]
  /\ pending' = AddTask(NextId)
  /\ UNCHANGED <<pc, tid, via, frame, seen, marked, admitted>>
  /\ UNCHANGED <<temp, costs>>
  /\ Behind
  /\ UNCHANGED beside

\* PUT /texts/{id}: the fields of the payload that are not None are stored
\* ("none", and 0 for queued_at, stand for None)
UpdatedRow(row, data) ==
  [row EXCEPT
     !.content = IF data.content # "none" THEN data.content ELSE @,
     !.status = IF data.status # "none" THEN data.status ELSE @,
     !.started_at = IF data.started_at # "none" THEN data.started_at ELSE @,
     !.queued_at = IF data.queued_at # 0 THEN data.queued_at ELSE @]

\* the payloads a client sends: its two timestamps of the job (the page's
\* clock), no content and no status
UpdateInputs ==
  [content : {"none"}, status : {"none"},
   started_at : {"set"}, queued_at : {ClientQueuedAt}]

UpdateText(j, data) ==
  /\ Exists(j)
  /\ texts' = [texts EXCEPT ![j] = UpdatedRow(@, data)]
  /\ UNCHANGED <<pending, pc, tid, via, frame, seen, marked, admitted>>
  /\ UNCHANGED <<temp, costs>>
  /\ Behind
  /\ UNCHANGED beside

\* ------------------------------------------------------------------ run()
\* the function a scheduled invocation enters, by the row's source_type
EntryFrame(j) == IF texts[j].source_type = "youtube" THEN "yt" ELSE "pt"

\* a scheduled invocation starts executing on a free thread (threads are
\* anonymous: the lowest free one is taken)
StartRun(w, j, v) ==
  /\ pc[w] = "idle"
  /\ \A u \in Workers : u < w => pc[u] # "idle"
  /\ pending[j][v] > 0
  /\ pending' = [pending EXCEPT ![j][v] = @ - 1]
  /\ pc' = [pc EXCEPT ![w] = "check"]
  /\ tid' = [tid EXCEPT ![w] = j]
  /\ via' = [via EXCEPT ![w] = v]
  /\ frame' = [frame EXCEPT ![w] = EntryFrame(j)]
  /\ seen' = [seen EXCEPT ![w] = "none"]
  /\ marked' = [marked EXCEPT ![w] = FALSE]
  /\ admitted' = [admitted EXCEPT ![w] = FALSE]
  /\ UNCHANGED texts
  /\ UNCHANGED <<temp, costs>>
  /\ Behind
  /\ UNCHANGED beside

\* query(Text).filter(status == "processing").first(): no ORDER BY, so any
\* processing row may be the one returned; 0 stands for None
FirstProcessing == IF Processing = {} THEN {0} ELSE Processing

\* mutant of StaysQueued: the comparison of the ids inverted
StaysQueuedInverted(j, p) == p # 0 /\ p = j

\* the single-flight guard of run(): another row is the processing one
StaysQueued(j, p) == p # 0 /\ p # j

\* mutant of AfterEarlyReturn: the early return leaves run() at once
AfterEarlyReturnSkipsFinally == "return"

\* where a `return` inside the try block continues: the finally block
AfterEarlyReturn == "admit"

\* entry of run(): load the row, look for a processing row
Check(w) ==
  /\ pc[w] = "check"
  /\ \E p \in FirstProcessing :
       IF ~Exists(tid[w]) \/ StaysQueued(tid[w], p)
       THEN /\ pc' = [pc EXCEPT ![w] = AfterEarlyReturn]
            /\ UNCHANGED seen
       ELSE /\ pc' = [pc EXCEPT ![w] = "mark"]
            /\ seen' = [seen EXCEPT ![w] = texts[tid[w]].status]
  /\ UNCHANGED <<texts, pending, tid, via, frame, marked, admitted>>
  /\ UNCHANGED <<temp, costs>>
  /\ Behind
  /\ UNCHANGED beside

\* the row after text.status = "processing"; db.commit(): the UPDATE carries
\* the status only when it differs from the value the session loaded
MarkedRow(row, loaded) ==
  IF loaded = "processing" THEN row ELSE [row EXCEPT !.status = "processing"]

\* text.status = "processing"; db.commit()
Mark(w) ==
  /\ pc[w] = "mark"
  /\ texts' = [texts EXCEPT ![tid[w]] = MarkedRow(@, seen[w])]
  /\ marked' = [marked EXCEPT ![w] = TRUE]
  /\ seen' = [seen EXCEPT ![w] = "none"]
  /\ pc' = [pc EXCEPT ![w] = IF frame[w] = "yt" THEN "download" ELSE "normalize"]
  /\ UNCHANGED <<pending, tid, via, frame, admitted>>
  /\ UNCHANGED <<temp, costs>>
  /\ Behind
  /\ UNCHANGED beside

\* process_youtube: download, store the file name, call process_transcription
Download(w, ok) ==
  /\ pc[w] = "download"
  /\ IF ok
     THEN /\ texts' = [texts EXCEPT ![tid[w]].filename = "youtube"]
          /\ frame' = [frame EXCEPT ![w] = "yt_pt"]
          /\ pc' = [pc EXCEPT ![w] = "check"]
          /\ marked' = [marked EXCEPT ![w] = FALSE]
     ELSE /\ pc' = [pc EXCEPT ![w] = "except"]
          /\ UNCHANGED <<texts, frame, marked>>
  /\ UNCHANGED <<pending, tid, via, seen, admitted>>
  /\ UNCHANGED <<temp, costs>>
  /\ Behind
  /\ UNCHANGED beside

\* the values float(ffprobe output) leaves in text.duration: the duration,
\* or nothing when the output does not parse (the error is only logged)
Durations(old) == {"known", old}

\* presence check, conversion to temp/<id>_audio.wav, duration
Normalize(w, ok) ==
  /\ pc[w] = "normalize"
  /\ IF ok
     THEN /\ \E d \in Durations(texts[tid[w]].duration) :
               texts' = [texts EXCEPT ![tid[w]].duration = d]
          /\ temp' = [temp EXCEPT ![tid[w]] = TRUE]
          /\ pc' = [pc EXCEPT ![w] = "transcribe"]
     ELSE /\ pc' = [pc EXCEPT ![w] = "except"]
          /\ UNCHANGED <<texts, temp>>
  /\ UNCHANGED <<pending, tid, via, frame, seen, marked, admitted, costs>>
  /\ Behind
  /\ UNCHANGED beside

\* the cost the backend returns
BackendCost(method) == IF method = "local" THEN LocalCost ELSE ApiCost

\* the text the backend returns: "\n".join(full_text) is the empty string
\* when the audio has no segments
BackendTexts == {"", "transcript"}

\* the row after the result is stored
StoredRow(row, text) ==
  [row EXCEPT !.content = text, !.cost = BackendCost(row.method),
              !.status = "unread"]

\* the backend call and the commit of its result; res is the text the
\* backend returned, or "raised"
Transcribe(w, res) ==
  /\ pc[w] = "transcribe"
  /\ IF res # "raised"
     THEN /\ texts' = [texts EXCEPT ![tid[w]] = StoredRow(@, res)]
          /\ pc' = [pc EXCEPT ![w] = "post"]
     ELSE /\ pc' = [pc EXCEPT ![w] = "except"]
          /\ UNCHANGED texts
  /\ UNCHANGED <<pending, tid, via, frame, seen, marked, admitted>>
  /\ UNCHANGED <<temp, costs>>
  /\ Behind
  /\ UNCHANGED beside

\* how the steps after the result is stored end: both done, the commit of the
\* Cost row raised, or os.remove raised
PostOutcomes == {"done", "cost_raised", "remove_raised"}

\* if cost > 0: db.add(Cost(...)); db.commit()
CostRows(n, cost) == IF cost > 0 THEN n + 1 ELSE n

\* the Cost row and the removal of the temporary audio, still inside the try
Post(w, out) ==
  /\ pc[w] = "post"
  /\ LET j == tid[w]
         cost == BackendCost(texts[j].method)
     IN  \/ /\ out = "done"
            /\ costs' = [costs EXCEPT ![j] = CostRows(@, cost)]
            /\ temp' = [temp EXCEPT ![j] = FALSE]
            /\ pc' = [pc EXCEPT ![w] = "admit"]
         \/ /\ out = "cost_raised"
            /\ cost > 0
            /\ UNCHANGED <<costs, temp>>
            /\ pc' = [pc EXCEPT ![w] = "except"]
         \/ /\ out = "remove_raised"
            /\ temp[j]
            /\ costs' = [costs EXCEPT ![j] = CostRows(@, cost)]
            /\ UNCHANGED temp
            /\ pc' = [pc EXCEPT ![w] = "except"]
  /\ UNCHANGED <<texts, pending, tid, via, frame, seen, marked, admitted>>
  /\ Behind
  /\ UNCHANGED beside

\* mutant of FailedRow: the failure path resets the duration
FailedRowErasing(row) ==
  [row EXCEPT !.status = "failed", !.error_message = "error",
              !.duration = "none"]

\* the row after the except block has recorded the failure
FailedRow(row) == [row EXCEPT !.status = "failed", !.error_message = "error"]

\* except Exception: record the failure; when that update raises too, the
\* error is logged and the session rolled back
Except(w, recorded) ==
  /\ pc[w] = "except"
  /\ texts' = IF recorded /\ Exists(tid[w])
              THEN [texts EXCEPT ![tid[w]] = FailedRow(@)]
              ELSE texts
  /\ pc' = [pc EXCEPT ![w] = "admit"]
  /\ UNCHANGED <<pending, tid, via, frame, seen, marked, admitted>>
  /\ UNCHANGED <<temp, costs>>
  /\ Behind
  /\ UNCHANGED beside

\* ------------------------------------------------- process_next_in_queue
\* mutant of AdmitBlocked: the single-flight guard of the scheduler missing
AdmitNeverBlocked == FALSE

\* what the first query decides: something is processing, so nothing starts
AdmitBlocked == Processing # {}

\* process_next_in_queue, first query
Admit(w) ==
  /\ pc[w] = "admit"
  /\ admitted' = [admitted EXCEPT ![w] = TRUE]
  /\ pc' = [pc EXCEPT ![w] = IF AdmitBlocked THEN "return" ELSE "pick"]
  /\ UNCHANGED <<texts, pending, tid, via, frame, seen, marked>>
  /\ UNCHANGED <<temp, costs>>
  /\ Behind
  /\ UNCHANGED beside

\* query(Text).filter(status == "queued").order_by(queued_at).first()
OldestQueued == {j \in Queued : \A k \in Queued : texts[j].queued_at <= texts[k].queued_at}

\* Thread(target=run, args=(queued.id, ...)).start()
StartThread(j) == [pending EXCEPT ![j]["thread"] = @ + 1]

\* process_next_in_queue, second query: nothing queued
PickNone(w) ==
  /\ pc[w] = "pick"
  /\ Queued = {}
  /\ pc' = [pc EXCEPT ![w] = "return"]
  /\ UNCHANGED <<texts, pending, tid, via, frame, seen, marked, admitted>>
  /\ UNCHANGED <<temp, costs>>
  /\ Behind
  /\ UNCHANGED beside

\* process_next_in_queue, second query: start the oldest queued row's run
PickStart(w, j) ==
  /\ pc[w] = "pick"
  /\ j \in OldestQueued
  /\ pending[j]["thread"] < MaxPending
  /\ pending' = StartThread(j)
  /\ pc' = [pc EXCEPT ![w] = "return"]
  /\ UNCHANGED <<texts, tid, via, frame, seen, marked, admitted>>
  /\ UNCHANGED <<temp, costs>>
  /\ Behind
  /\ UNCHANGED beside

\* the end of the finally block: process_transcription called by
\* process_youtube returns into process_youtube's own finally block
Return(w) ==
  /\ pc[w] = "return"
  /\ IF frame[w] = "yt_pt"
     THEN /\ frame' = [frame EXCEPT ![w] = "yt"]
          /\ pc' = [pc EXCEPT ![w] = "admit"]
          /\ marked' = [marked EXCEPT ![w] = TRUE]
          /\ admitted' = [admitted EXCEPT ![w] = FALSE]
          /\ UNCHANGED <<tid, via>>
     ELSE /\ pc' = [pc EXCEPT ![w] = "idle"]
          /\ tid' = [tid EXCEPT ![w] = 0]
          /\ via' = [via EXCEPT ![w] = "task"]
          /\ frame' = [frame EXCEPT ![w] = "pt"]
          /\ marked' = [marked EXCEPT ![w] = FALSE]
          /\ admitted' = [admitted EXCEPT ![w] = FALSE]
  /\ UNCHANGED <<texts, pending, seen>>
  /\ UNCHANGED <<temp, costs>>
  /\ Behind
  /\ UNCHANGED beside

\* the submissions of the interleaved runs: MaxJobs jobs for the paid backend
Submittable(m) == Cardinality(Jobs) < MaxJobs /\ m = "api"

\* the errors of the interleaved runs after the result is stored: those of the
\* database (SpecSeq has the error of os.remove as well)
CommitOutcomes == PostOutcomes \ {"remove_raised"}

Next ==
  \/ \E m \in Methods, now \in NowValues : Submittable(m) /\ UploadFile(m, now)
  \/ \E m \in Methods, now \in NowValues : Submittable(m) /\ TranscribeYoutube(m, now)
  \/ \E w \in Workers, j \in Ids, v \in Vias : StartRun(w, j, v)
  \/ \E w \in Workers : Check(w)
  \/ \E w \in Workers : Mark(w)
  \/ \E w \in Workers, ok \in BOOLEAN : Download(w, ok)
  \/ \E w \in Workers, ok \in BOOLEAN : Normalize(w, ok)
  \/ \E w \in Workers, res \in {"raised", "transcript"} : Transcribe(w, res)
  \/ \E w \in Workers, out \in CommitOutcomes : Post(w, out)
  \/ \E w \in Workers, recorded \in BOOLEAN : Except(w, recorded)
  \/ \E w \in Workers : Admit(w)
  \/ \E w \in Workers : PickNone(w)
  \/ \E w \in Workers, j \in Ids : PickStart(w, j)
  \/ \E w \in Workers : Return(w)


Spec == Init /\ [][Next]_vars

\* the same program with its runs one after the other (a run starts when the
\* one before it has returned): MaxJobs jobs, every backend and every backend
\* result
NextSeq ==
  \/ \E m \in Methods, now \in NowValues :
        Cardinality(Jobs) < MaxJobs /\ UploadFile(m, now)
  \/ \E m \in Methods, now \in NowValues :
        Cardinality(Jobs) < MaxJobs /\ TranscribeYoutube(m, now)
  \/ \E j \in Ids, v \in Vias : StartRun(1, j, v)
  \/ Check(1)
  \/ Mark(1)
  \/ \E ok \in BOOLEAN : Download(1, ok)
  \/ \E ok \in BOOLEAN : Normalize(1, ok)
  \/ \E res \in {"raised"} \cup BackendTexts : Transcribe(1, res)
  \/ \E out \in PostOutcomes : Post(1, out)
  \/ \E recorded \in BOOLEAN : Except(1, recorded)
  \/ Admit(1)
  \/ PickNone(1)
  \/ \E j \in Ids : PickStart(1, j)
  \/ Return(1)

SpecSeq == Init /\ [][NextSeq]_vars

\* the queue of uploads for the local backend whose runs all succeed, one after
\* the other, with the client's updates of the timestamps
NextQueue ==
  \/ \E now \in NowValues : UploadFile("local", now)
  \/ \E j \in Ids, data \in UpdateInputs : UpdateText(j, data)
  \/ \E j \in Ids, v \in Vias : StartRun(1, j, v)
  \/ Check(1)
  \/ Mark(1)
  \/ Normalize(1, TRUE)
  \/ Transcribe(1, "transcript")
  \/ Post(1, "done")
  \/ Admit(1)
  \/ PickNone(1)
  \/ \E j \in Ids : PickStart(1, j)
  \/ Return(1)

SpecQueue == Init /\ [][NextQueue]_vars

\* ------------------------------------------------------------ delete_text
\* DELETE /texts/{id}: the file uploads/<filename> is removed and the row
\* deleted; nothing under temp/ is touched
DeleteText(j) ==
  /\ Exists(j)
  /\ texts' = [texts EXCEPT ![j] = NoText]
  /\ gone' = gone \cup {j}
  /\ UNCHANGED <<pending, pc, tid, via, frame, seen, marked, admitted>>
  /\ UNCHANGED <<temp, costs>>
  /\ Behind
  /\ UNCHANGED <<cache, tools, backend, yt, clock, uploads, rows>>

\* the row of the worker's job exists
Live(w) == tid[w] # 0 /\ Exists(tid[w])

\* the places of run() between the entry and the except block
BodyPcs == {"mark", "normalize", "transcribe", "post"}

\* the next step of a run for the local backend whose row has been deleted:
\* the UPDATE of the commit matches no row and the commit raises, unless the
\* session has nothing to write; the uploaded file is gone; after the backend
\* call the commit of the result raises; with cost 0 the steps after the
\* result only remove the temporary audio
Stale(w) ==
  /\ pc[w] \in BodyPcs
  /\ ~Exists(tid[w])
  /\ pc' = [pc EXCEPT ![w] =
       IF pc[w] = "post" THEN "admit"
       ELSE IF pc[w] = "mark" /\ seen[w] = "processing" THEN "normalize"
       ELSE "except"]
  /\ marked' = [marked EXCEPT ![w] = IF pc[w] = "mark" THEN TRUE ELSE @]
  /\ seen' = [seen EXCEPT ![w] = IF pc[w] = "mark" THEN "none" ELSE @]
  /\ temp' = [temp EXCEPT ![tid[w]] = IF pc[w] = "post" THEN FALSE ELSE @]
  /\ UNCHANGED <<texts, pending, tid, via, frame, admitted, costs>>
  /\ Behind
  /\ UNCHANGED beside

\* the runs of MaxJobs uploads for the local backend, interleaved, with the
\* errors of normalization and backend, and delete_text of any row; every
\* upload is made before the first deletion
NextDelete ==
  \/ \E t \in NowValues :
        Cardinality(Jobs) < MaxJobs /\ gone = {} /\ UploadFile("local", t)
  \/ \E j \in Ids : DeleteText(j)
  \/ \E w \in Workers, j \in Ids, v \in Vias : StartRun(w, j, v)
  \/ \E w \in Workers : Check(w)
  \/ \E w \in Workers : Live(w) /\ Mark(w)
  \/ \E w \in Workers, ok \in BOOLEAN : Live(w) /\ Normalize(w, ok)
  \/ \E w \in Workers, res \in {"raised", "transcript"} :
        Live(w) /\ Transcribe(w, res)
  \/ \E w \in Workers : Live(w) /\ Post(w, "done")
  \/ \E w \in Workers : Stale(w)
  \/ \E w \in Workers : Except(w, TRUE)
  \/ \E w \in Workers : Admit(w)
  \/ \E w \in Workers : PickNone(w)
  \/ \E w \in Workers, j \in Ids : PickStart(w, j)
  \/ \E w \in Workers : Return(w)

SpecDelete == Init /\ [][NextDelete]_vars

\* no invocation is running or waiting to run
Quiescent ==
  /\ \A w \in Workers : pc[w] = "idle"
  /\ \A j \in Ids, v \in Vias : pending[j][v] = 0

\* ------------------------------------------------------- get_local_model
\* a thread at transcribe_local calls get_local_model (not the demo mode)
CallModel(c) ==
  /\ at[c] = "out"
  /\ at' = [at EXCEPT ![c] = "test"]
  /\ UNCHANGED <<local_model, constructed, got>>
  /\ UNCHANGED <<pipeline, tools, backend, yt, files>>

\* if cls._local_model is None
TestModel(c) ==
  /\ at[c] = "test"
  /\ at' = [at EXCEPT ![c] = IF local_model = 0 THEN "construct" ELSE "return"]
  /\ UNCHANGED <<local_model, constructed, got>>
  /\ UNCHANGED <<pipeline, tools, backend, yt, files>>

\* cls._local_model = WhisperModel(...)
ConstructModel(c) ==
  /\ at[c] = "construct"
  /\ constructed < MaxCallers
  /\ constructed' = constructed + 1
  /\ local_model' = constructed + 1
  /\ at' = [at EXCEPT ![c] = "return"]
  /\ UNCHANGED got
  /\ UNCHANGED <<pipeline, tools, backend, yt, files>>

\* return cls._local_model
ReturnModel(c) ==
  /\ at[c] = "return"
  /\ got' = [got EXCEPT ![c] = local_model]
  /\ at' = [at EXCEPT ![c] = "out"]
  /\ UNCHANGED <<local_model, constructed>>
  /\ UNCHANGED <<pipeline, tools, backend, yt, files>>

NextModel ==
  \/ \E c \in Callers : CallModel(c)
  \/ \E c \in Callers : TestModel(c)
  \/ \E c \in Callers : ConstructModel(c)
  \/ \E c \in Callers : ReturnModel(c)

\* the calls of get_local_model made by threads that run at the same time
SpecModel == Init /\ [][NextModel]_vars

\* --------------------------------------------------------- extract_audio
\* what a path holds: nothing, a file of 0 bytes, a file with content
FileKinds == {"missing", "empty", "media"}

\* a file is written to, or removed from, the disk between two calls
PutFile(j, kind) ==
  /\ ea.pc \in {"out", "returned", "raised"}
  /\ disk[j] # kind
  /\ disk' = [disk EXCEPT ![j] = kind]
  /\ UNCHANGED ea
  /\ UNCHANGED <<pipeline, cache, backend, yt, files>>

\* mutant of InputUsable: the checks of the input file missing
InputUnchecked(kind) == TRUE

\* os.path.exists(video_path) and file_size > 0
InputUsable(kind) == kind = "media"

\* the entry of extract_audio: the checks of the input file
ExtractAudio(j) ==
  /\ ea.pc \in {"out", "returned", "raised"}
  /\ ea' = IF InputUsable(disk[j])
           THEN [pc |-> "primary", path |-> j, found |-> disk[j], ran |-> <<>>,
                 result |-> "none"]
           ELSE [pc |-> "raised", path |-> j, found |-> disk[j], ran |-> <<>>,
                 result |-> "input " \o disk[j]]
  /\ UNCHANGED disk
  /\ UNCHANGED <<pipeline, cache, backend, yt, files>>

\* subprocess.run(command, check=True): ffmpeg exits with 0 or not
Primary(ok) ==
  /\ ea.pc = "primary"
  /\ ea' = [ea EXCEPT !.ran = Append(@, [command |-> "primary", ok |-> ok]),
                      !.pc = IF ok THEN "returned" ELSE "retry",
                      !.result = IF ok THEN "output_path" ELSE "none"]
  /\ UNCHANGED disk
  /\ UNCHANGED <<pipeline, cache, backend, yt, files>>

\* except CalledProcessError as e: subprocess.run(command_retry, check=True);
\* the exception raised when that fails too carries e.stderr[:500]
Retry(ok) ==
  /\ ea.pc = "retry"
  /\ ea' = [ea EXCEPT !.ran = Append(@, [command |-> "retry", ok |-> ok]),
                      !.pc = IF ok THEN "returned" ELSE "raised",
                      !.result = IF ok THEN "output_path" ELSE "stderr"]
  /\ UNCHANGED disk
  /\ UNCHANGED <<pipeline, cache, backend, yt, files>>

NextAudio ==
  \/ \E j \in Ids, kind \in FileKinds : PutFile(j, kind)
  \/ \E j \in Ids : ExtractAudio(j)
  \/ \E ok \in BOOLEAN : Primary(ok)
  \/ \E ok \in BOOLEAN : Retry(ok)

\* the calls of extract_audio, one after the other
SpecAudio == Init /\ [][NextAudio]_vars

\* ------------------------------------------------------ format_timestamp
\* strings are sequences of characters
Digits == <<"0", "1", "2", "3", "4", "5", "6", "7", "8", "9">>

IsDigit(c) == \E i \in 1..10 : Digits[i] = c

RECURSIVE Decimal(_)
\* str(n) of a natural number
Decimal(n) ==
  IF n < 10 THEN <<Digits[n + 1]>>
  ELSE Decimal(n \div 10) \o <<Digits[(n % 10) + 1]>>

\* "0" * n
Zeros(n) == [i \in 1..n |-> "0"]

\* "%0<width>d" % n, and str.zfill(width) of a string without sign
ZFill(str, width) == IF Len(str) < width THEN Zeros(width - Len(str)) \o str ELSE str

\* str[:n]
Take(str, n) == SubSeq(str, 1, IF Len(str) < n THEN Len(str) ELSE n)

\* c in str
Has(str, c) == \E i \in 1..Len(str) : str[i] = c

\* str.replace(a, b) for single characters
Replace(str, a, b) == [i \in 1..Len(str) |-> IF str[i] = a THEN b ELSE str[i]]

\* str.split(c)[1], for a string that contains c: the part between the first
\* c and the next one
SecondPart(str, c) ==
  LET first == CHOOSE i \in 1..Len(str) :
                 str[i] = c /\ \A k \in 1..(i - 1) : str[k] # c
      rest == SubSeq(str, first + 1, Len(str))
      stop == IF Has(rest, c)
              THEN CHOOSE i \in 1..Len(rest) :
                     rest[i] = c /\ \A k \in 1..(i - 1) : rest[k] # c
              ELSE Len(rest) + 1
  IN  SubSeq(rest, 1, stop - 1)

\* str(timedelta(seconds=ms / 1000)): "[D day[s], ]H:MM:SS[.ffffff]"
TimedeltaStr(ms) ==
  LET secs == ms \div 1000
      days == secs \div 86400
      hh == (secs % 86400) \div 3600
      mm == (secs % 3600) \div 60
      ss == secs % 60
      micro == (ms % 1000) * 1000
  IN  (IF days > 0
       THEN Decimal(days) \o <<" ", "d", "a", "y">>
              \o (IF days # 1 THEN <<"s">> ELSE <<>>) \o <<",", " ">>
       ELSE <<>>)
      \o Decimal(hh) \o <<":">> \o ZFill(Decimal(mm), 2) \o <<":">>
      \o ZFill(Decimal(ss), 2)
      \o (IF micro # 0 THEN <<".">> \o ZFill(Decimal(micro), 6) ELSE <<>>)

\* format_timestamp(ms / 1000)
FormatTimestamp(ms) ==
  LET r0 == TimedeltaStr(ms)
      r1 == IF ~Has(r0, ".") THEN r0 \o <<".", "0", "0", "0", "0", "0", "0">> ELSE r0
      r2 == Replace(Take(r1, 12), ".", ",")
      r3 == IF ~Has(r2, ",") THEN r2 \o <<",", "0", "0", "0">>
            ELSE IF Len(SecondPart(r2, ",")) < 3
                 THEN r2 \o Zeros(3 - Len(SecondPart(r2, ",")))
                 ELSE r2
  IN  ZFill(r3, 12)

\* ------------------------------------------------------- transcribe_local
RECURSIVE LStrip(_, _)
\* str.lstrip(c)
LStrip(str, c) == IF str # <<>> /\ Head(str) = c THEN LStrip(Tail(str), c) ELSE str

RECURSIVE RStrip(_, _)
\* str.rstrip(c)
RStrip(str, c) ==
  IF str # <<>> /\ str[Len(str)] = c THEN RStrip(SubSeq(str, 1, Len(str) - 1), c)
  ELSE str

\* segment.text.strip(), for a text whose only white space is the blank
Strip(str) == RStrip(LStrip(str, " "), " ")

RECURSIVE Join(_)
\* "\n".join(lines)
Join(lines) ==
  IF lines = <<>> THEN <<>>
  ELSE IF Len(lines) = 1 THEN lines[1]
  ELSE lines[1] \o <<"\n">> \o Join(Tail(lines))

RECURSIVE LinesOf(_)
\* the lines of a text
LinesOf(str) ==
  IF str = <<>> THEN <<>>
  ELSE IF ~Has(str, "\n") THEN <<str>>
  ELSE LET k == CHOOSE i \in 1..Len(str) :
                  str[i] = "\n" /\ \A m \in 1..(i - 1) : str[m] # "\n"
       IN  <<SubSeq(str, 1, k - 1)>> \o LinesOf(SubSeq(str, k + 1, Len(str)))

\* the start times of the segments, in milliseconds: under ten hours, with
\* and without a fraction, and above ten hours
StartTimes == {0, 1500, 3600000, 36000250}

\* the text of a segment as the model yields it
SegmentText == <<" ", "h", "i">>

\* the languages the model detects when none is given
ModelLanguages == {"ru"}

\* the loop of transcribe_local over the segments
LocalLines(segs, add_timestamps) ==
  [i \in 1..Len(segs) |->
     IF add_timestamps
     THEN <<"[">> \o FormatTimestamp(segs[i].start) \o <<"]", " ">> \o Strip(segs[i].text)
     ELSE Strip(segs[i].text)]

\* number of texts of the demo mode
MockSegments == 5

\* fake_texts of MockTranscriptionService, by their index
MockText(i) == <<"t">> \o Decimal(i)

\* MockTranscriptionService.transcribe_local: the content
MockContent(add_timestamps) ==
  IF add_timestamps
  THEN Join([i \in 1..MockSegments |->
              <<"[", "0", "0", ":", "0", "0", ":">> \o ZFill(Decimal((i - 1) * 5), 2)
                \o <<",", "0", "0", "0", "]", " ">> \o MockText(i)])
  ELSE LET RECURSIVE Spaced(_)
           Spaced(i) == IF i = MockSegments THEN MockText(i)
                        ELSE MockText(i) \o <<" ">> \o Spaced(i + 1)
       IN  Spaced(1)

\* language and language != "auto"
Concrete(language) == language # "none" /\ language # "auto"

\* info.language: the language given to model.transcribe, or the detected one
InfoLanguage(language, detected) == IF Concrete(language) THEN language ELSE detected

\* info.language if not language else language
LocalLanguage(language, info) == IF language = "none" THEN info ELSE language

\* transcribe_local(audio_path, language, add_timestamps)
TranscribeLocal(language, add_timestamps, demo, detected) ==
  IF demo
  THEN [content |-> MockContent(add_timestamps),
        language |-> IF Concrete(language) THEN language ELSE "ru",
        heard |-> "ru", demo |-> TRUE]
  ELSE [content |-> Join(LocalLines(segments, add_timestamps)),
        language |-> LocalLanguage(language, InfoLanguage(language, detected)),
        heard |-> InfoLanguage(language, detected), demo |-> FALSE]

\* transcribe_api(audio_path, api_key, language, add_timestamps): the
\* response of the API in the requested format
TranscribeApi(language, add_timestamps) ==
  [content |-> IF add_timestamps THEN <<"s", "r", "t">> ELSE <<"t", "e", "x", "t">>,
   language |-> IF Concrete(language) THEN language ELSE "auto",
   heard |-> "none", demo |-> FALSE]

\* ------------------------------------------------------ sanitize_filename
\* the characters of a title: ASCII ones by themselves, the others by their
\* code point: U+044F and U+044C are Cyrillic ya and soft sign, U+00E9 is
\* e with acute, U+0301 the combining acute, U+4E2D a CJK character
Letters == {"a", "c", "e", "y", "f", "i", "l"}

Allowed == Letters \cup {"1", "_", "-", "."}

TitleChars == {"a", "1", "_", "-", ".", " ", "/", "U+044F", "U+044C", "U+00E9", "U+4E2D"}

\* str.rfind(c), counted from 1; 0 when c is not in str
RFind(str, c) ==
  IF Has(str, c)
  THEN CHOOSE i \in 1..Len(str) : str[i] = c /\ \A k \in (i + 1)..Len(str) : str[k] # c
  ELSE 0

\* os.path.splitext(p): the extension starts at the last dot of the last path
\* component, unless only dots precede it there
SplitExt(p) ==
  LET sep == RFind(p, "/")
      dot == RFind(p, ".")
  IN  IF dot > sep /\ \E k \in (sep + 1)..(dot - 1) : p[k] # "."
      THEN [name |-> SubSeq(p, 1, dot - 1), ext |-> SubSeq(p, dot, Len(p))]
      ELSE [name |-> p, ext |-> <<>>]

RECURSIVE Flat(_)
\* ''.join(parts)
Flat(parts) == IF parts = <<>> THEN <<>> ELSE Head(parts) \o Flat(Tail(parts))

\* translit_map.get(c, c)
Translit(c) ==
  IF c = "U+044F" THEN <<"y", "a">>
  ELSE IF c = "U+044C" THEN <<>>
  ELSE <<c>>

\* unicodedata.normalize('NFKD', c)
Nfkd(c) == IF c = "U+00E9" THEN <<"e", "U+0301">> ELSE <<c>>

\* c survives encode('ascii', 'ignore')
IsAscii(c) == c \in Allowed \cup {" ", "/"}

\* re.sub(r'[^\w\-.]', '_', ascii_name), one character
Cleaned(c) == IF c \in Allowed THEN c ELSE "_"

RECURSIVE Squeeze(_)
\* re.sub(r'_+', '_', str)
Squeeze(str) ==
  IF Len(str) < 2 THEN str
  ELSE IF str[1] = "_" /\ str[2] = "_" THEN Squeeze(Tail(str))
  ELSE <<str[1]>> \o Squeeze(Tail(str))

\* sanitize_filename(filename)
SanitizeFilename(filename) ==
  LET parts == SplitExt(filename)
      transliterated == Flat([i \in 1..Len(parts.name) |-> Translit(parts.name[i])])
      normalized == Flat([i \in 1..Len(transliterated) |-> Nfkd(transliterated[i])])
      ascii_name == SelectSeq(normalized, IsAscii)
      replaced == [i \in 1..Len(ascii_name) |-> Cleaned(ascii_name[i])]
      stripped == RStrip(LStrip(Squeeze(replaced), "_"), "_")
      cleaned == IF stripped = <<>> THEN <<"f", "i", "l", "e">> ELSE stripped
  IN  cleaned \o parts.ext

\* the next character of the title of the video
TypeChar(c) ==
  /\ yt.pc = "typing"
  /\ Len(yt.title) < MaxName
  /\ yt' = [yt EXCEPT !.title = Append(@, c)]
  /\ UNCHANGED <<pipeline, cache, tools, backend, files>>

\* safe_title = sanitize_filename(video_title)
SafeTitle ==
  /\ yt.pc = "typing"
  /\ yt' = [yt EXCEPT !.pc = "named", !.safe = SanitizeFilename(yt.title)]
  /\ UNCHANGED <<pipeline, cache, tools, backend, files>>

\* the next video
NextTitle ==
  /\ yt.pc = "named"
  /\ yt' = NoTitle
  /\ UNCHANGED <<pipeline, cache, tools, backend, files>>

NextNames ==
  \/ \E c \in TitleChars : TypeChar(c)
  \/ SafeTitle
  \/ NextTitle

\* the names sanitize_filename makes of the titles of at most MaxName characters
SpecNames == Init /\ [][NextNames]_vars

\* ------------------------------------------- upload_file and delete_text
\* ticks of the clock in one second
TicksPerSecond == 2

\* datetime.now().strftime("%Y%m%d_%H%M%S"): the time cut to the second
Timestamp(t) == t \div TicksPerSecond

\* the extension of the uploads
Flac == <<".", "f", "l", "a", "c">>

\* file.filename of the uploads
UploadNames == {<<"a">> \o Flac, <<"a", " ", "a">> \o Flac, <<"a", "_", "a">> \o Flac}

\* file_ext in audio_exts
Supported(filename) == SplitExt(filename).ext = Flac

\* filename = f"{timestamp}_{safe_filename}"
StoredName(t, filename) ==
  [timestamp |-> Timestamp(t), safe_filename |-> SanitizeFilename(filename)]

\* time passes
Tick ==
  /\ clock < MaxTicks
  /\ clock' = clock + 1
  /\ UNCHANGED <<uploads, rows>>
  /\ UNCHANGED gone
  /\ UNCHANGED <<pipeline, cache, tools, backend, yt>>

\* POST /upload: the file is written under its stored name, the row created
SaveUpload(filename) ==
  /\ Len(rows) < MaxUploads
  /\ Supported(filename)
  /\ uploads' = uploads \cup {StoredName(clock, filename)}
  /\ rows' = Append(rows, [filename |-> StoredName(clock, filename), deleted |-> FALSE])
  /\ UNCHANGED clock
  /\ UNCHANGED gone
  /\ UNCHANGED <<pipeline, cache, tools, backend, yt>>

\* DELETE /texts/{id}: os.remove of the file of the row, db.delete(text)
DeleteUpload(i) ==
  /\ i \in 1..Len(rows)
  /\ ~rows[i].deleted
  /\ uploads' = uploads \ {rows[i].filename}
  /\ rows' = [rows EXCEPT ![i].deleted = TRUE]
  /\ UNCHANGED clock
  /\ UNCHANGED gone
  /\ UNCHANGED <<pipeline, cache, tools, backend, yt>>

NextUploads ==
  \/ Tick
  \/ \E filename \in UploadNames : SaveUpload(filename)
  \/ \E i \in 1..MaxUploads : DeleteUpload(i)

\* uploads and deletions, one request after the other
SpecUploads == Init /\ [][NextUploads]_vars

\* ------------------------------------------------- the options of a job
\* the values of the form field `language`
Hints == {"auto", "en"}

\* language=language if language != "auto" else None
RowLanguage(language) == IF language # "auto" THEN language ELSE "none"

\* upload_file, transcribe_youtube: the row and the background task
Submit(method, language, add_timestamps) ==
  /\ opt.pc \in {"none", "done"}
  /\ opt' = [pc |-> "queued",
            form |-> [method |-> method, language |-> language,
                      add_timestamps |-> add_timestamps],
            row |-> [method |-> method, language |-> RowLanguage(language)],
            args |-> "none", via |-> "none"]
  /\ segments' = <<>>
  /\ outcome' = NoResult
  /\ UNCHANGED <<pipeline, cache, tools, yt, files>>

\* the background task of the submission starts the run
TaskStarts ==
  /\ opt.pc = "queued"
  /\ opt' = [opt EXCEPT !.pc = "running", !.via = "task",
                        !.args = [method |-> opt.form.method,
                                  language |-> opt.form.language,
                                  add_timestamps |-> opt.form.add_timestamps]]
  /\ UNCHANGED <<segments, outcome>>
  /\ UNCHANGED <<pipeline, cache, tools, yt, files>>

\* process_next_in_queue starts the run:
\* args=(queued.id, file_path, queued.method, queued.language, True)
SchedulerStarts ==
  /\ opt.pc = "queued"
  /\ opt' = [opt EXCEPT !.pc = "running", !.via = "thread",
                        !.args = [method |-> opt.row.method,
                                  language |-> opt.row.language,
                                  add_timestamps |-> TRUE]]
  /\ UNCHANGED <<segments, outcome>>
  /\ UNCHANGED <<pipeline, cache, tools, yt, files>>

\* the model yields one more segment of the audio
Segment(start) ==
  /\ opt.pc = "running"
  /\ opt.args.method = "local"
  /\ Len(segments) < MaxSegments
  /\ segments' = Append(segments, [start |-> start, text |-> SegmentText])
  /\ UNCHANGED <<opt, outcome>>
  /\ UNCHANGED <<pipeline, cache, tools, yt, files>>

\* the backend call of the run and the commit of its result
CallBackend(demo, detected) ==
  /\ opt.pc = "running"
  /\ demo => segments = <<>>
  /\ outcome' = IF opt.args.method = "local"
               THEN TranscribeLocal(opt.args.language, opt.args.add_timestamps,
                                    demo, detected)
               ELSE TranscribeApi(opt.args.language, opt.args.add_timestamps)
  /\ opt' = [opt EXCEPT !.pc = "done"]
  /\ UNCHANGED segments
  /\ UNCHANGED <<pipeline, cache, tools, yt, files>>

NextBackend ==
  \/ \E m \in Methods, l \in Hints, t \in BOOLEAN : Submit(m, l, t)
  \/ TaskStarts
  \/ SchedulerStarts
  \/ \E start \in StartTimes : Segment(start)
  \/ \E demo \in BOOLEAN, detected \in ModelLanguages : CallBackend(demo, detected)

\* one submission after the other, each run to its stored result
SpecBackend == Init /\ [][NextBackend]_vars

\* ------------------------------------------------------------ properties
\* the job's file under uploads/ exists: it is written before its name is
\* stored, and the only os.remove of the pipeline is that of the temporary audio
UploadExists(j) == texts[j].filename # "none"

\* the places of an invocation between its start and its finally block
RunPcs == {"check", "mark", "download", "normalize", "transcribe", "post", "except"}

\* invocations the scheduler has started that have not reached their finally block
ThreadRuns(j) ==
  pending[j]["thread"]
    + Cardinality({w \in Workers : tid[w] = j /\ via[w] = "thread" /\ pc[w] \in RunPcs})

\* C1: in every reachable state at most one job record has status `processing`.
C1_SingleFlight == Cardinality(Processing) <= 1

\* C2: once a job's status is terminal (unread or failed), no step of the
\* pipeline changes that status again.
C2_TerminalIsFinal ==
  [][\A j \in Ids :
       texts[j].status \in Terminal => texts'[j].status = texts[j].status]_vars

\* C3: with exactly two jobs A and B and queued_at(A) < queued_at(B), B's status
\* becomes `processing` only after A's has (A is no longer `queued`).
C3_SubmissionOrder ==
  [][\A a, b \in Ids :
       ( /\ Jobs = {a, b}
         /\ texts[a].queued_at < texts[b].queued_at
         /\ texts[b].status = "queued"
         /\ texts'[b].status = "processing" )
       => texts[a].status # "queued"]_vars

\* C4: calls of process_next_in_queue, in a row or concurrent, never have two
\* runs they started in flight: not for two jobs, not twice for one job.
C4_AdmitOnce ==
  \A i, j \in Ids :
    IF i = j THEN ThreadRuns(i) <= 1
    ELSE ThreadRuns(i) = 0 \/ ThreadRuns(j) = 0

\* C5: when run() returns after having set the job to `processing`, the job's
\* status is terminal.
C5_NeverLeftProcessing ==
  \A w \in Workers :
    (pc[w] = "return" /\ marked[w]) => texts[tid[w]].status \in Terminal

\* C6: every invocation of run() has called process_next_in_queue when it
\* returns, whether it ran the job or returned at its entry checks.
C6_AlwaysAdmits == \A w \in Workers : pc[w] = "return" => admitted[w]

\* C6 witness: an invocation that returned at its entry checks (it never set
\* the job to processing) is about to return and has called the scheduler.
C6_Witness ==
  \E w \in Workers : pc[w] = "return" /\ ~marked[w] /\ admitted[w]

\* C7: when a run of job A raises, A is left `failed`; and once every
\* invocation has ended no job is still `queued` (the queue is not blocked).
C7_FailureIsolation ==
  /\ [][\A w \in Workers :
          (pc[w] = "except" /\ pc'[w] # "except")
          => texts'[tid[w]].status = "failed"]_vars
  /\ [](Quiescent => Queued = {})

\* C8: a job B submitted while job A is processing stays `queued` as long as A
\* is processing; and once every invocation has ended with A terminal, B is
\* terminal too, so B is not left `queued`.
C8_QueuedBehind ==
  \A a \in Jobs : \A b \in behind[a] :
    /\ texts[a].status = "processing" => texts[b].status = "queued"
    /\ (Quiescent /\ texts[a].status \in Terminal) => texts[b].status \in Terminal

\* C9: a call of process_next_in_queue that finds a job `processing`, or finds
\* no `queued` job, starts no run and changes no job record.
C9_AdmitNoOp ==
  [][\A w \in Workers :
       /\ (pc[w] = "admit" /\ pc'[w] # "admit" /\ Processing # {})
          => (texts' = texts /\ pending' = pending /\ pc'[w] = "return")
       /\ (pc[w] = "pick" /\ pc'[w] # "pick" /\ Queued = {})
          => (texts' = texts /\ pending' = pending /\ pc'[w] = "return")]_vars

\* C9 witness: the call of process_next_in_queue made by an invocation that
\* returned at its entry check has ended; its job is still queued behind a
\* processing job and no run has been started for it.
C9_Witness ==
  \E w \in Workers :
    /\ pc[w] = "return" /\ admitted[w] /\ ~marked[w]
    /\ texts[tid[w]].status = "queued"
    /\ Processing # {}
    /\ ThreadRuns(tid[w]) = 0

\* C10: run() entered for a queued job while a different job is `processing`
\* changes no field of any job record and goes straight to its finally block
\* (no acquisition, normalization or backend step).
C10_EntryNoOp ==
  [][\A w \in Workers :
       ( /\ pc[w] = "check" /\ pc'[w] # "check"
         /\ texts[tid[w]].status = "queued"
         /\ \E p \in Processing : p # tid[w] )
       => (texts' = texts /\ pc'[w] = "admit" /\ ~marked'[w])]_vars

\* C10 witness: an invocation for a job that is still queued is in its finally
\* block without having set the job to processing, while another job is
\* processing.
C10_Witness ==
  \E w \in Workers :
    /\ pc[w] = "admit" /\ ~marked[w] /\ frame[w] # "yt"
    /\ texts[tid[w]].status = "queued"
    /\ \E p \in Processing : p # tid[w]

\* C11: the job a call of process_next_in_queue starts is the queued job with
\* the smallest queued_at and, among queued jobs with equal queued_at, the one
\* with the smallest id.
C11_OldestFirst ==
  [][\A j \in Ids :
       pending'[j]["thread"] > pending[j]["thread"]
       => \A k \in Queued :
            \/ texts[j].queued_at < texts[k].queued_at
            \/ texts[j].queued_at = texts[k].queued_at /\ j <= k]_vars

\* C12: no job ever has two Cost rows, a job that is still queued has none,
\* and once every invocation has ended a job has exactly one Cost row if it
\* is ready (unread) with cost > 0 and none otherwise.
C12_OneCostEvent ==
  \A j \in Ids :
    /\ costs[j] <= 1
    /\ texts[j].status \in {"absent", "queued"} => costs[j] = 0
    /\ Quiescent =>
         costs[j] = IF texts[j].status = "unread" /\ texts[j].cost > 0
                    THEN 1 ELSE 0

\* C13: a job's status changes only from queued to processing and from
\* processing to unread (ready) or failed; a new row starts queued.
C13_Transitions ==
  [][\A j \in Ids :
       texts'[j].status # texts[j].status
       => \/ texts[j].status = "absent" /\ texts'[j].status = "queued"
          \/ texts[j].status = "queued" /\ texts'[j].status = "processing"
          \/ texts[j].status = "processing" /\ texts'[j].status \in Terminal]_vars

\* C14: every error raised in a run (download, normalization, backend, the
\* steps after it) ends in the except block, which leaves the job `failed`
\* with an error message and goes on to the admission check of the finally
\* block; the job's row, created by the submission, is still there.
C14_ErrorsContained ==
  [][\A w \in Workers :
       (pc[w] = "except" /\ pc'[w] # "except")
       => /\ pc'[w] = "admit"
          /\ Exists(tid[w])
          /\ texts'[tid[w]].status = "failed"
          /\ texts'[tid[w]].error_message # "none"]_vars

C16_TempAudio ==
  [][/\ \A w \in Workers :
          (pc[w] \in {"post", "except"} /\ pc'[w] = "admit")
          => /\ texts'[tid[w]].status = "unread"
                => ~temp'[tid[w]] /\ UploadExists(tid[w])'
             /\ texts'[tid[w]].status = "failed"
                => temp'[tid[w]] = temp[tid[w]]
     /\ \A j \in Ids : UploadExists(j) => UploadExists(j)']_vars

\* C17: when the download of a remote-video job raises, the run leaves the job
\* `failed` with an error message, goes to its finally block without a
\* normalization or backend step, and does not create the temporary audio.
C17_DownloadFailure ==
  /\ [][\A w \in Workers :
          (pc[w] = "except" /\ frame[w] = "yt" /\ pc'[w] # "except")
          => /\ texts'[tid[w]].status = "failed"
             /\ texts'[tid[w]].error_message # "none"
             /\ pc'[w] = "admit"
             /\ temp' = temp]_vars
  /\ [](\A w \in Workers :
          frame[w] = "yt" => pc[w] \notin {"normalize", "transcribe", "post"})

\* C18: the model constructor is invoked at most once, and all callers of
\* get_local_model receive the same instance.
C18_ModelOnce ==
  /\ constructed <= 1
  /\ \A c, d \in Callers : (got[c] # 0 /\ got[d] # 0) => got[c] = got[d]

\* C19: every job whose status is ready (unread) has a non-empty transcript
\* and a cost >= 0.
C19_ReadyHasTranscript ==
  \A j \in Ids :
    texts[j].status = "unread" => texts[j].content # "" /\ texts[j].cost >= 0

\* C20: every job whose status is processing, ready (unread) or failed has
\* started_at set.
C20_StartedAtSet ==
  \A j \in Ids :
    texts[j].status \in {"processing", "unread", "failed"}
    => texts[j].started_at # "none"

\* C21: every failed job has an error message, and a job that is ready
\* (unread) has none.
C21_ErrorDetail ==
  \A j \in Ids :
    /\ texts[j].status = "failed" => texts[j].error_message # "none"
    /\ texts[j].status = "unread" => texts[j].error_message = "none"

\* C28: once the result is stored and the job is ready (unread), a failure of
\* a later step of the same run (the Cost row, the removal of the temporary
\* audio) leaves the status and the stored result as they are.
C28_ReadyKept ==
  [][\A w \in Workers :
       (pc[w] = "except" /\ pc'[w] # "except" /\ tid[w] # 0
          /\ texts[tid[w]].status = "unread")
       => /\ texts'[tid[w]].status = "unread"
          /\ texts'[tid[w]].content = texts[tid[w]].content]_vars

\* C23: extract_audio runs no conversion when the input file is missing or
\* empty; otherwise it runs the primary conversion once, and the fallback
\* once if and only if the primary failed, never a third; it returns the
\* output path if one of them succeeded and raises with the diagnostic of the
\* tool if both failed.
C23_ExtractAudio ==
  /\ Len(ea.ran) <= 2
  /\ ea.pc = "retry" => ea.ran = <<[command |-> "primary", ok |-> FALSE]>>
  /\ ea.pc \in {"returned", "raised"} =>
       IF ea.found # "media"
       THEN ea.ran = <<>> /\ ea.pc = "raised"
       ELSE /\ Len(ea.ran) >= 1
            /\ ea.ran[1].command = "primary"
            /\ Len(ea.ran) = 2 <=> ~ea.ran[1].ok
            /\ Len(ea.ran) = 2 => ea.ran[2].command = "retry"
            /\ ea.pc = "returned" <=> \E i \in 1..Len(ea.ran) : ea.ran[i].ok
            /\ ea.pc = "returned" => ea.result = "output_path"
            /\ ea.pc = "raised" => ea.result = "stderr"

\* both conversions have run and failed
C23_Witness ==
  /\ ea.pc = "raised"
  /\ Len(ea.ran) = 2
  /\ ea.result = "stderr"

\* a time stamp of the form HH:MM:SS,mmm
IsStamp(str) ==
  /\ Len(str) = 12
  /\ \A i \in {1, 2, 4, 5, 7, 8, 10, 11, 12} : IsDigit(str[i])
  /\ str[3] = ":" /\ str[6] = ":" /\ str[9] = ","

\* a line of the form [HH:MM:SS,mmm] <text>
IsStampedLine(line) ==
  /\ Len(line) >= 15
  /\ line[1] = "["
  /\ IsStamp(SubSeq(line, 2, 13))
  /\ line[14] = "]" /\ line[15] = " "

\* the texts of the segments in the order the backend produced them
Spoken ==
  IF outcome.demo THEN [i \in 1..MockSegments |-> MockText(i)]
  ELSE [i \in 1..Len(segments) |-> Strip(segments[i].text)]

\* C24: the content a local run with timestamps stores has one line per
\* segment, in the order of the segments, each of the form
\* [HH:MM:SS,mmm] <text>.
C24_StampedLines ==
  (opt.pc = "done" /\ opt.args.method = "local" /\ opt.form.add_timestamps
     /\ opt.args.add_timestamps) =>
    LET lines == LinesOf(outcome.content)
    IN  /\ Len(lines) = Len(Spoken)
        /\ \A i \in 1..Len(lines) :
             /\ IsStampedLine(lines[i])
             /\ SubSeq(lines[i], 16, Len(lines[i])) = Spoken[i]

\* C25: the language a local run stores is the language the model reported
\* when the submitted hint is "auto", and the hint when it is a language code.
C25_DetectedLanguage ==
  (opt.pc = "done" /\ opt.args.method = "local") =>
    outcome.language = IF opt.form.language = "auto" THEN outcome.heard
                       ELSE opt.form.language

\* C27: whichever path starts the run of a job, run() gets the method, the
\* language hint and the timestamps flag the job was submitted with, the
\* arguments the background task of the submission passes.
C27_SameOptions ==
  opt.pc \in {"running", "done"} =>
    /\ opt.args.method = opt.form.method
    /\ opt.args.language = opt.form.language
    /\ opt.args.add_timestamps = opt.form.add_timestamps

\* C26: the name sanitize_filename returns is not empty and consists of
\* ASCII letters, digits, "_", "-" and "." only.
C26_SafeName ==
  yt.pc = "named" =>
    /\ yt.safe # <<>>
    /\ \A i \in 1..Len(yt.safe) : yt.safe[i] \in Allowed

\* C30: two upload jobs never have the same stored file name, and the file of
\* every upload job that has not been deleted exists.
C30_DistinctNames ==
  \A i, k \in 1..Len(rows) :
    (~rows[i].deleted /\ ~rows[k].deleted) =>
      /\ i # k => rows[i].filename # rows[k].filename
      /\ rows[i].filename \in uploads

\* C22: once the row of a job has been deleted and no run of the job is
\* executing, the temporary audio of the job does not exist.
C22_NoArtifacts ==
  \A j \in gone :
    (\A w \in Workers : ~(tid[w] = j /\ pc[w] \in RunPcs)) => ~temp[j]

\* a worker is executing the run body of a job whose row has been deleted
RunsDeleted(w) == tid[w] \in gone /\ marked[w] /\ pc[w] \in BodyPcs \ {"mark"}

\* C29: while a worker is still executing the run of a job whose row has been
\* deleted, no invocation passes the entry check of run() to start the body of
\* another job; the deleted row is not created again, and the worker calls
\* process_next_in_queue before it returns.
C29_DeleteWhileProcessing ==
  /\ [][\A u \in Workers :
          (pc[u] = "check" /\ pc'[u] = "mark")
          => ~\E w \in Workers : w # u /\ RunsDeleted(w)]_vars
  /\ [](\A j \in gone : ~Exists(j))
  /\ [](\A w \in Workers : (tid[w] \in gone /\ pc[w] = "return") => admitted[w])

=============================================================================
